---------------------------- MODULE Spec2Model ----------------------------
(* slmon2.py: the status registry (StatusDict), the latency classifier     *)
(* (get_status_from_seconds) and the ingestion / publish loop of main().   *)
(*                                                                         *)
(* Timestamps are whole seconds (total_seconds works on td.seconds and     *)
(* td.days); the wall clock read by datetime.utcnow() and time() is `now`. *)
(* Codes (net, sta, loc, typ) are atoms without '.', '_' or ':'; a channel *)
(* code is the sequence of its three characters. A registry key is the     *)
(* sequence of the pieces the source joins into the key string.            *)
EXTENDS Integers, Sequences, FiniteSets, TLC

VARIABLES
    pc,                     \* position of main(): one of PCs
    status,                 \* the global StatusDict: key -> Status
    rec,                    \* the feed record bound by `for rec in input`
    now,                    \* wall clock
    nextTimeGenerateHTML,   \* main's publish deadline
    snapshot,               \* what the last successful to_json read
    exitcode,               \* process exit status, Running while alive
    nrecs,                  \* feed records consumed so far
    torn,                   \* keys whose last_data was stored by an update that
                            \* has not stored last_feed
    outcome,                \* how the processing of the last feed record ended
    repeat,                 \* rec equals the record applied just before it
    cl,                     \* classifier harness: inputs and results
    doc,                    \* the stations_list of the last successful to_json
    published,              \* what the last generate_all_files returned
    cause,                  \* why main ended
    signalled,              \* a shutdown signal has been delivered
    loaded,                 \* the registry read back from a text dump
    cut,                    \* artifacts written when a signal ended a publish
    env                     \* what main finds at start-up

vars == <<pc, status, rec, now, nextTimeGenerateHTML, snapshot, exitcode,
          nrecs, torn, outcome, repeat, cl, doc, published, cause, signalled,
          loaded, cut, env>>

-----------------------------------------------------------------------------
(* Bounds and input alphabets *)

MaxTime == 1            \* the clock and every timestamp lie in 0..MaxTime
MaxRecs == 2            \* feed records consumed in a run
MaxSlinkLines == 2      \* lines of slinktool output processed at startup
MaxDelta == 1           \* classifier inputs lie within MaxDelta of a threshold
refresh == 1            \* int(config['setup']['refresh'])

None == -1              \* Python None in a timestamp field
\* no exit status yet; an exit status n is <<n>>
Running == <<>>

Times == 0..MaxTime

Nets == {"AU"}
Stas == {"ARMA", "YAPP"}
Locs == {""}
Chas == {<<"H", "H", "Z">>, <<"L", "H", "Z">>}
Typs == {"D", "E"}

\* net_sta of main(): the configured station list
stations == {<<"AU", "_", "ARMA">>}

-----------------------------------------------------------------------------
(* Latency classifier *)

LH == <<"L", "H">>
BH == <<"B", "H">>
HH == <<"H", "H">>
\* channel_type=None, the default of get_status_from_seconds
NoType == <<>>
\* the "other" of to_json
Other == <<"o", "t", "h", "e", "r">>
SH == <<"S", "H">>
EH == <<"E", "H">>
\* the primaryChannelType "none" of to_json's failsafe
NoPrimary == <<"n", "o", "n", "e">>

\* the branch of get_status_from_seconds taken when channel_type == 'LH'
lenient_ladder(seconds) ==
    IF seconds > 604800 THEN "unavailable"
    ELSE IF seconds > 518400 THEN "four-day"
    ELSE IF seconds > 432000 THEN "three-day"
    ELSE IF seconds > 345600 THEN "multi-day"
    ELSE IF seconds > 259200 THEN "day-delayed"
    ELSE IF seconds > 86400 THEN "critical"
    ELSE IF seconds > 43200 THEN "warning"
    ELSE IF seconds > 21600 THEN "hour-delayed"
    ELSE IF seconds > 10800 THEN "very-delayed"
    ELSE IF seconds > 3600 THEN "long-delayed"
    ELSE IF seconds > 1800 THEN "delayed"
    ELSE "good"

\* the standard thresholds of get_status_from_seconds
standard_ladder(seconds) ==
    IF seconds > 432000 THEN "unavailable"
    ELSE IF seconds > 345600 THEN "four-day"
    ELSE IF seconds > 259200 THEN "three-day"
    ELSE IF seconds > 172800 THEN "multi-day"
    ELSE IF seconds > 86400 THEN "day-delayed"
    ELSE IF seconds > 21600 THEN "critical"
    ELSE IF seconds > 7200 THEN "warning"
    ELSE IF seconds > 3600 THEN "hour-delayed"
    ELSE IF seconds > 1800 THEN "very-delayed"
    ELSE IF seconds > 600 THEN "long-delayed"
    ELSE IF seconds > 60 THEN "delayed"
    ELSE "good"

\* mutant: the one-minute threshold compared with >= instead of >
get_status_ge60(seconds, channel_type) ==
    IF channel_type = LH THEN lenient_ladder(seconds)
    ELSE IF seconds = 60 THEN "delayed" ELSE standard_ladder(seconds)

\* mutant: the LH branch skips day-delayed and ends one day earlier
get_status_lh_shifted(seconds, channel_type) ==
    IF channel_type = LH
    THEN IF seconds > 518400 THEN "unavailable"
         ELSE IF seconds > 432000 THEN "four-day"
         ELSE IF seconds > 345600 THEN "three-day"
         ELSE IF seconds > 259200 THEN "multi-day"
         ELSE lenient_ladder(seconds)
    ELSE standard_ladder(seconds)

\* mutant: the labels of the two-hour and six-hour steps exchanged
get_status_swapped(seconds, channel_type) ==
    IF channel_type = LH THEN lenient_ladder(seconds)
    ELSE IF standard_ladder(seconds) = "warning" THEN "critical"
    ELSE IF standard_ladder(seconds) = "critical" THEN "warning"
    ELSE standard_ladder(seconds)

\* mutant: the six-hour threshold compared with >= instead of >
get_status_ge21600(seconds, channel_type) ==
    IF channel_type = LH THEN lenient_ladder(seconds)
    ELSE IF seconds = 21600 THEN "critical" ELSE standard_ladder(seconds)

\* variant: the age is taken by magnitude, so clock skew counts as staleness
get_status_abs(seconds, channel_type) ==
    LET magnitude == IF seconds < 0 THEN 0 - seconds ELSE seconds
    IN IF channel_type = LH THEN lenient_ladder(magnitude)
       ELSE standard_ladder(magnitude)

get_status_from_seconds(seconds, channel_type) ==
    IF channel_type = LH THEN lenient_ladder(seconds) ELSE standard_ladder(seconds)

-----------------------------------------------------------------------------
(* Status registry *)

\* Status: the attributes every constructor of a Status object sets
Status(net, sta, loc, cha, typ, last_data, last_feed) ==
    [net |-> net, sta |-> sta, loc |-> loc, cha |-> cha, typ |-> typ,
     last_data |-> last_data, last_feed |-> last_feed]

\* self[sec] = d
SetItem(st, key, d) ==
    [k \in DOMAIN st \cup {key} |-> IF k = key THEN d ELSE st[k]]

\* "%s.%s.%s.%s.%c" % (net, sta, loc, cha, typ), '.'.join([...]) in main
DotKey(net, sta, loc, cha, typ) ==
    <<net, ".", sta, ".", loc, ".">> \o cha \o <<".", typ>>

\* f"{d.net}_{d.sta}:{d.loc}.{d.cha}.{d.typ}" in StatusDict.read
ReadKey(net, sta, loc, cha, typ) ==
    <<net, "_", sta, ":", loc, ".">> \o cha \o <<".", typ>>

\* regexStreams.match(cha): [SLBVEH][HNLGD][ZNE123ADHF]
regexStreams(cha) ==
    /\ Len(cha) >= 3
    /\ cha[1] \in {"S", "L", "B", "V", "E", "H"}
    /\ cha[2] \in {"H", "N", "L", "G", "D"}
    /\ cha[3] \in {"Z", "N", "E", "1", "2", "3", "A", "D", "H", "F"}

\* mutant: the record type of a line is not looked at
fromSlinkToolLine_anytype(st, stns, line) ==
    IF <<line.net, "_", line.sta>> \notin stns THEN st
    ELSE IF ~regexStreams(line.cha) THEN st
    ELSE SetItem(st, DotKey(line.net, line.sta, line.loc, line.cha, line.typ),
                 Status(line.net, line.sta, line.loc, line.cha, line.typ,
                        line.time, line.time))

\* one iteration of the loop of fromSlinkTool over the lines of slinktool -Q
fromSlinkToolLine(st, stns, line) ==
    IF <<line.net, "_", line.sta>> \notin stns THEN st
    ELSE IF line.typ # "D" THEN st
    ELSE IF ~regexStreams(line.cha) THEN st
    ELSE SetItem(st, DotKey(line.net, line.sta, line.loc, line.cha, line.typ),
                 Status(line.net, line.sta, line.loc, line.cha, line.typ,
                        line.time, line.time))

RECURSIVE fromSlinkTool(_, _, _)
fromSlinkTool(st, stns, lines) ==
    IF lines = <<>> THEN st
    ELSE fromSlinkTool(fromSlinkToolLine(st, stns, Head(lines)), stns, Tail(lines))

\* one iteration of the loop of StatusDict.read; a line is its fixed-width
\* fields, long (len(line) >= 65) or not, a timestamp field None when
\* timeparse raises on it
readLine(st, line) ==
    IF ~line.long THEN st
    ELSE LET last_feed == IF line.feed # None /\ line.data # None /\ line.feed < line.data
                          THEN line.data ELSE line.feed
         IN SetItem(st, ReadKey(line.net, line.sta, line.loc, line.cha, line.typ),
                    Status(line.net, line.sta, line.loc, line.cha, line.typ,
                           line.data, last_feed))

RECURSIVE read(_, _)
read(st, lines) ==
    IF lines = <<>> THEN st
    ELSE read(readLine(st, Head(lines)), Tail(lines))

\* the empty StatusDict()
EmptyDict == [k \in {} |-> 0]

-----------------------------------------------------------------------------
(* Inputs *)

SlinkLines ==
    [net : Nets, sta : Stas, loc : Locs, cha : Chas, typ : Typs, time : Times]

FeedRecords ==
    [net : Nets, sta : Stas, loc : Locs, cha : Chas, rectype : Typs, end_time : Times]

NoRec == [net |-> "", sta |-> "", loc |-> "", cha |-> <<>>, rectype |-> "", end_time |-> None]

SeqsUpTo(S, n) == UNION {[1..m -> S] : m \in 0..n}

\* id = '.'.join([rec.net, rec.sta, rec.loc, rec.cha, rec.rectype])
id == DotKey(rec.net, rec.sta, rec.loc, rec.cha, rec.rectype)

-----------------------------------------------------------------------------
(* Snapshot *)

\* total_seconds(now - value.last_data)
total_seconds(t, last_data) == t - last_data

\* channel_type = value.cha[:2] if len(value.cha) >= 2 else "other"
channel_type(cha) ==
    IF Len(cha) >= 2 THEN SubSeq(cha, 1, 2) ELSE Other

\* variant: every channel is classified on the standard ladder
to_json_untyped(st, t) ==
    [k \in DOMAIN st |->
        [last_data |-> st[k].last_data,
         last_feed |-> st[k].last_feed,
         latency |-> total_seconds(t, st[k].last_data),
         status |-> get_status_from_seconds(total_seconds(t, st[k].last_data),
                                            NoType)]]

\* the channel_data built by to_json for every item of the registry
to_json(st, t) ==
    [k \in DOMAIN st |->
        [last_data |-> st[k].last_data,
         last_feed |-> st[k].last_feed,
         latency |-> total_seconds(t, st[k].last_data),
         status |-> get_status_from_seconds(total_seconds(t, st[k].last_data),
                                            channel_type(st[k].cha))]]

\* latency_data = now - value.last_data raises TypeError when last_data is
\* None, before the channel_data of that item is built
to_json_raises(st) == \E k \in DOMAIN st : st[k].last_data = None

\* generate_json_data: the TypeError of to_json is caught and leaves the
\* previous stations_data.json in place
generate_json_data(st, t, old) ==
    IF to_json_raises(st) THEN old ELSE to_json(st, t)

\* nothing published yet
NoSnapshot == [k \in {} |-> 0]

\* net_sta = f"{value.net}_{value.sta}"
net_sta(value) == <<value.net, "_", value.sta>>

\* the keys of stations_data[net_sta]["channelGroups"]
ChannelGroups == {HH, BH, LH, SH, EH, Other}

\* the group a channel is appended to: its channel_type if that is a key of
\* channelGroups, else "other"
channelGroup(cha) ==
    IF channel_type(cha) \in ChannelGroups THEN channel_type(cha) ELSE Other

\* self.items(): the keys of the registry, each once, in the order of the dict
RECURSIVE items(_)
items(keys) ==
    IF keys = {} THEN <<>>
    ELSE LET k == CHOOSE x \in keys : TRUE
         IN <<k>> \o items(keys \ {k})

\* a new element of stations_data: no channel, six empty groups
new_station == [channels |-> <<>>, channelGroups |-> [g \in ChannelGroups |-> <<>>]]

\* variant: the append to the "other" group is not under the else
append_channel_other_too(st, data, k) ==
    LET ns == net_sta(st[k])
        d0 == IF ns \in DOMAIN data THEN data
              ELSE [n \in DOMAIN data \cup {ns} |->
                       IF n = ns THEN new_station ELSE data[n]]
        g == channelGroup(st[k].cha)
        d1 == [d0 EXCEPT ![ns].channels = Append(@, k),
                         ![ns].channelGroups[g] = Append(@, k)]
    IN [d1 EXCEPT ![ns].channelGroups[Other] = Append(@, k)]

\* one pass of the first loop of to_json: the station element is created
\* when missing, the channel (named here by its key) is appended to the
\* channels list and to the list of its group
append_channel(st, data, k) ==
    LET ns == net_sta(st[k])
        d0 == IF ns \in DOMAIN data THEN data
              ELSE [n \in DOMAIN data \cup {ns} |->
                       IF n = ns THEN new_station ELSE data[n]]
        g == channelGroup(st[k].cha)
    IN [d0 EXCEPT ![ns].channels = Append(@, k),
                  ![ns].channelGroups[g] = Append(@, k)]

\* the first loop of to_json over the items still to visit
RECURSIVE group_channels(_, _, _)
group_channels(st, todo, data) ==
    IF todo = <<>> THEN data
    ELSE group_channels(st, Tail(todo), append_channel(st, data, Head(todo)))

\* variant: stations_data starts with an element for every monitored station
stations_data_preset(st) ==
    group_channels(st, items(DOMAIN st),
                   [n \in {<<net, "_", sta>> : net \in Nets, sta \in Stas} |->
                       new_station])

\* stations_data after the first loop
stations_data(st) == group_channels(st, items(DOMAIN st), NoSnapshot)

\* max([ch["latency"] for ch in group]), the channel_data being chans
worst_latency(chans, group) ==
    CHOOSE m \in {chans[group[i]].latency : i \in DOMAIN group} :
        \A i \in DOMAIN group : chans[group[i]].latency <= m

\* variant: LH is consulted before the short-period groups
primaryChannelType_lh_early(groups) ==
    IF groups[HH] # <<>> THEN HH
    ELSE IF groups[BH] # <<>> THEN BH
    ELSE IF groups[LH] # <<>> THEN LH
    ELSE IF groups[SH] # <<>> THEN SH
    ELSE IF groups[EH] # <<>> THEN EH
    ELSE IF groups[Other] # <<>> THEN Other
    ELSE NoPrimary

\* the if/elif chain of to_json that picks the group the station is judged by
primaryChannelType(groups) ==
    IF groups[HH] # <<>> THEN HH
    ELSE IF groups[BH] # <<>> THEN BH
    ELSE IF groups[SH] # <<>> THEN SH
    ELSE IF groups[EH] # <<>> THEN EH
    ELSE IF groups[LH] # <<>> THEN LH
    ELSE IF groups[Other] # <<>> THEN Other
    ELSE NoPrimary

\* variant: the station is judged by the worst of all its channels
station_latency_all(chans, all, groups, p) ==
    IF all = <<>> THEN 0 ELSE worst_latency(chans, all)

\* data["latency"]: worst_latency of the primary group p, 0 in the failsafe
station_latency(chans, all, groups, p) ==
    IF p = NoPrimary THEN 0 ELSE worst_latency(chans, groups[p])

\* variant: the station status never uses the lenient ladder
station_status_standard(worst, p) ==
    IF p = NoPrimary THEN "unavailable"
    ELSE get_status_from_seconds(worst, NoType)

\* data["status"]: get_status_from_seconds(worst_latency) in every branch
\* but LH, which passes "LH"; "unavailable" in the failsafe
station_status(worst, p) ==
    IF p = NoPrimary THEN "unavailable"
    ELSE IF p = LH THEN get_status_from_seconds(worst, LH)
    ELSE get_status_from_seconds(worst, NoType)

\* one element of stations_list: the second loop of to_json for station ns
station_data(st, t, ns) ==
    LET chans == to_json(st, t)
        data == stations_data(st)[ns]
        groups == data.channelGroups
        p == primaryChannelType(groups)
        worst == station_latency(chans, data.channels, groups, p)
    IN [id |-> ns,
        channels |-> data.channels,
        channelGroups |-> groups,
        primaryChannelType |-> p,
        status |-> station_status(worst, p),
        latency |-> worst]

\* the stations_list to_json dumps, by station id
stations_list(st, t) ==
    [ns \in DOMAIN stations_data(st) |-> station_data(st, t, ns)]

-----------------------------------------------------------------------------
(* main() *)

\* start-up as main needs it: both configuration files exist and the
\* output directory can be made
AllFound == [setup |-> TRUE, stations |-> TRUE, wwwdir |-> TRUE]

PCs == {"config", "load", "setup", "initial", "deadline", "next", "setData", "setFeed", "check",
        "generate", "setNext", "exited", "dump", "dumped"}

NoCl == [a |-> 0, b |-> 0, type |-> NoType, ra |-> "", rb |-> "", done |-> FALSE]

Init ==
    /\ pc = "setup"
    /\ status = EmptyDict
    /\ rec = NoRec
    /\ now = 0
    /\ nextTimeGenerateHTML = None
    /\ snapshot = NoSnapshot
    /\ exitcode = Running
    /\ nrecs = 0
    /\ torn = {}
    /\ outcome = "none"
    /\ repeat = FALSE
    /\ cl = NoCl
    /\ doc = NoSnapshot
    /\ published = <<>>
    /\ cause = "none"
    /\ signalled = FALSE
    /\ loaded = EmptyDict
    /\ cut = None
    /\ env = AllFound

\* status.fromSlinkTool(server, stations=net_sta), the server answering with
\* at most n of the given lines
PopulateFrom(Lines, n) ==
    /\ pc = "setup"
    /\ \E lines \in SeqsUpTo(Lines, n) :
          status' = fromSlinkTool(status, stations, lines)
    /\ pc' = "initial"
    /\ UNCHANGED <<rec, now, nextTimeGenerateHTML, snapshot, exitcode, nrecs,
                   torn, outcome, repeat, cl,
                   doc, published, cause, signalled,
                   loaded, cut, env>>

Populate == PopulateFrom(SlinkLines, MaxSlinkLines)

\* what the file system does to one generate_all_files: TRUE where the step
\* succeeds (makedirs, then the writes of styles.css, script.js,
\* stations_data.json, index.html and the station pages); makedirs never
\* succeeds on an output directory that cannot be made (env.wwwdir)
IOOutcomes ==
    [makedirs : BOOLEAN, css : BOOLEAN, js : BOOLEAN, json : BOOLEAN,
     main : BOOLEAN, station : BOOLEAN]

\* the artifacts of one generate_all_files, in the order they are written
Artifacts == <<"css", "js", "json", "main", "stations">>

\* stations_data.json is the artifact written by the third generator
json_position == CHOOSE i \in DOMAIN Artifacts : Artifacts[i] = "json"

AllWritten ==
    [makedirs |-> TRUE, css |-> TRUE, js |-> TRUE, json |-> TRUE,
     main |-> TRUE, station |-> TRUE]

\* the return value of generate_all_files: every generator returned a path
\* and at least one station page was generated
generate_all_files(st, io) ==
    /\ io.makedirs
    /\ io.css /\ io.js /\ io.json /\ io.main
    /\ DOMAIN st # {} /\ io.station

\* stations_data.json is rewritten when makedirs and the write succeed
json_written(io) == io.makedirs /\ io.json

\* generate_main_html calls to_json outside any try, and
\* generate_station_html subtracts last_data and last_feed from the clock
\* outside any try: a None raises TypeError through generate_all_files
generate_raises(st, io) ==
    /\ io.makedirs
    /\ \/ to_json_raises(st)
       \/ \E k \in DOMAIN st : st[k].last_data = None \/ st[k].last_feed = None

\* variant: main ends the process when generate_all_files returns False
generate_all_files_fatal(io, after) ==
    IF generate_raises(status, io) \/ ~generate_all_files(status, io)
    THEN /\ pc' = "exited"
         /\ exitcode' = <<1>>
         /\ cause' = "error"
         /\ published' = Append(published, FALSE)
         /\ UNCHANGED <<snapshot, doc>>
    ELSE /\ pc' = after
         /\ snapshot' = generate_json_data(status, now, snapshot)
         /\ doc' = stations_list(status, now)
         /\ published' = Append(published, TRUE)
         /\ UNCHANGED <<exitcode, cause>>

\* one call generate_all_files(config, status) by main, which ignores what
\* it returns and goes on at `after`
call_generate_all_files(io, after) ==
    IF generate_raises(status, io)
    THEN /\ pc' = "exited"
         /\ exitcode' = <<1>>
         /\ cause' = "error"
         /\ UNCHANGED <<snapshot, doc, published>>
    ELSE /\ pc' = after
         /\ snapshot' = IF json_written(io)
                        THEN generate_json_data(status, now, snapshot)
                        ELSE snapshot
         /\ doc' = IF json_written(io) THEN stations_list(status, now) ELSE doc
         /\ published' = Append(published, generate_all_files(status, io))
         /\ UNCHANGED <<exitcode, cause>>

\* generate_all_files(config, status) before the loop
GenerateInitialWith(IOs) ==
    /\ pc = "initial"
    /\ \E io \in IOs : /\ io.makedirs => env.wwwdir
                       /\ call_generate_all_files(io, "deadline")
    /\ UNCHANGED <<status, rec, now, nextTimeGenerateHTML, nrecs, torn,
                   outcome, repeat, cl, signalled,
                   loaded, cut, env>>

GenerateInitial == GenerateInitialWith({AllWritten})

\* nextTimeGenerateHTML = time()
SetDeadline ==
    /\ pc = "deadline"
    /\ nextTimeGenerateHTML' = now
    /\ pc' = "next"
    /\ UNCHANGED <<status, rec, now, snapshot, exitcode, nrecs, torn, outcome,
                   repeat, cl,
                   doc, published, cause, signalled,
                   loaded, cut, env>>

\* for rec in input: the iterator yields a record, one of Records, the
\* feed delivering at most n of them
NextRecordFrom(Records, n) ==
    /\ pc = "next"
    /\ nrecs < n
    /\ \E r \in Records :
          /\ rec' = r
          /\ repeat' = (r = rec /\ outcome = "applied")
    /\ nrecs' = nrecs + 1
    /\ pc' = "setData"
    /\ UNCHANGED <<status, now, nextTimeGenerateHTML, snapshot, exitcode, torn,
                   outcome, cl,
                   doc, published, cause, signalled,
                   loaded, cut, env>>

NextRecord == NextRecordFrom(FeedRecords, MaxRecs)

\* for rec in input: the iterator is exhausted and main returns
EndOfStream ==
    /\ pc = "next"
    /\ pc' = "exited"
    /\ exitcode' = <<0>>
    /\ cause' = "eos"
    /\ UNCHANGED <<status, rec, now, nextTimeGenerateHTML, snapshot, nrecs,
                   torn, outcome, repeat, cl, doc, published, signalled,
                   loaded, cut, env>>

\* mutant: a record for an unknown key creates the entry
SetLastData_create ==
    /\ pc = "setData"
    /\ status' = IF id \in DOMAIN status
                 THEN [status EXCEPT ![id].last_data = rec.end_time]
                 ELSE SetItem(status, id,
                              Status(rec.net, rec.sta, rec.loc, rec.cha, rec.rectype,
                                     rec.end_time, None))
    /\ torn' = torn \cup {id}
    /\ pc' = "setFeed"
    /\ UNCHANGED <<rec, now, nextTimeGenerateHTML, snapshot, exitcode, nrecs,
                   outcome, repeat, cl,
                   doc, published, cause, signalled,
                   loaded, cut, env>>

\* mutant: a record older than the stored sample time removes the entry
SetLastData_drop ==
    /\ pc = "setData"
    /\ IF id \in DOMAIN status /\ rec.end_time >= status[id].last_data
       THEN /\ status' = [status EXCEPT ![id].last_data = rec.end_time]
            /\ torn' = torn \cup {id}
            /\ pc' = "setFeed"
            /\ UNCHANGED outcome
       ELSE /\ status' = [k \in DOMAIN status \ {id} |-> status[k]]
            /\ pc' = "next"
            /\ outcome' = "discarded"
            /\ UNCHANGED torn
    /\ UNCHANGED <<rec, now, nextTimeGenerateHTML, snapshot, exitcode, nrecs,
                   repeat, cl,
                   doc, published, cause, signalled,
                   loaded, cut, env>>

\* variant: a record older than the stored sample time leaves last_data alone
SetLastData_newest ==
    /\ pc = "setData"
    /\ IF id \in DOMAIN status
       THEN /\ status' = IF rec.end_time >= status[id].last_data
                         THEN [status EXCEPT ![id].last_data = rec.end_time]
                         ELSE status
            /\ torn' = torn \cup {id}
            /\ pc' = "setFeed"
            /\ UNCHANGED outcome
       ELSE /\ pc' = "next"
            /\ outcome' = "discarded"
            /\ UNCHANGED <<status, torn>>
    /\ UNCHANGED <<rec, now, nextTimeGenerateHTML, snapshot, exitcode, nrecs,
                   repeat, cl, doc, published, cause, signalled,
                   loaded, cut, env>>

\* variant: the KeyError of an unknown key is not caught and ends main
SetLastData_raise ==
    /\ pc = "setData"
    /\ IF id \in DOMAIN status
       THEN /\ status' = [status EXCEPT ![id].last_data = rec.end_time]
            /\ torn' = torn \cup {id}
            /\ pc' = "setFeed"
            /\ UNCHANGED <<outcome, exitcode, cause>>
       ELSE /\ pc' = "exited"
            /\ exitcode' = <<1>>
            /\ cause' = "error"
            /\ outcome' = "discarded"
            /\ UNCHANGED <<status, torn>>
    /\ UNCHANGED <<rec, now, nextTimeGenerateHTML, snapshot, nrecs, repeat, cl,
                   doc, published, signalled,
                   loaded, cut, env>>

\* status[id].last_data = rec.end_time; KeyError goes to except: continue
SetLastData ==
    /\ pc = "setData"
    /\ IF id \in DOMAIN status
       THEN /\ status' = [status EXCEPT ![id].last_data = rec.end_time]
            /\ torn' = torn \cup {id}
            /\ pc' = "setFeed"
            /\ UNCHANGED outcome
       ELSE /\ pc' = "next"
            /\ outcome' = "discarded"
            /\ UNCHANGED <<status, torn>>
    /\ UNCHANGED <<rec, now, nextTimeGenerateHTML, snapshot, exitcode, nrecs,
                   repeat, cl,
                   doc, published, cause, signalled,
                   loaded, cut, env>>

\* mutant: last_feed takes the record's end time, as in fromSlinkTool
SetLastFeed_endtime ==
    /\ pc = "setFeed"
    /\ status' = [status EXCEPT ![id].last_feed = rec.end_time]
    /\ torn' = torn \ {id}
    /\ outcome' = "applied"
    /\ pc' = "check"
    /\ UNCHANGED <<rec, now, nextTimeGenerateHTML, snapshot, exitcode, nrecs,
                   repeat, cl,
                   doc, published, cause, signalled,
                   loaded, cut, env>>

\* variant: the feed time is stored in every record of the station
SetLastFeed_station ==
    /\ pc = "setFeed"
    /\ status' = [k \in DOMAIN status |->
                     IF status[k].net = rec.net /\ status[k].sta = rec.sta
                     THEN [status[k] EXCEPT !.last_feed = now]
                     ELSE status[k]]
    /\ torn' = torn \ {id}
    /\ outcome' = "applied"
    /\ pc' = "check"
    /\ UNCHANGED <<rec, now, nextTimeGenerateHTML, snapshot, exitcode, nrecs,
                   repeat, cl, doc, published, cause, signalled,
                   loaded, cut, env>>

\* status[id].last_feed = datetime.utcnow()
SetLastFeed ==
    /\ pc = "setFeed"
    /\ status' = [status EXCEPT ![id].last_feed = now]
    /\ torn' = torn \ {id}
    /\ outcome' = "applied"
    /\ pc' = "check"
    /\ UNCHANGED <<rec, now, nextTimeGenerateHTML, snapshot, exitcode, nrecs,
                   repeat, cl,
                   doc, published, cause, signalled,
                   loaded, cut, env>>

\* if time() > nextTimeGenerateHTML
CheckDeadline ==
    /\ pc = "check"
    /\ pc' = IF now > nextTimeGenerateHTML THEN "generate" ELSE "next"
    /\ UNCHANGED <<status, rec, now, nextTimeGenerateHTML, snapshot, exitcode,
                   nrecs, torn, outcome, repeat, cl,
                   doc, published, cause, signalled,
                   loaded, cut, env>>

\* generate_all_files(config, status) in the loop
GenerateWith(IOs) ==
    /\ pc = "generate"
    /\ \E io \in IOs : /\ io.makedirs => env.wwwdir
                       /\ call_generate_all_files(io, "setNext")
    /\ UNCHANGED <<status, rec, now, nextTimeGenerateHTML, nrecs, torn,
                   outcome, repeat, cl, signalled,
                   loaded, cut, env>>

Generate == GenerateWith({AllWritten})

\* variant: the next deadline is counted from the previous deadline
SetNext_fixed_rate ==
    /\ pc = "setNext"
    /\ nextTimeGenerateHTML' = nextTimeGenerateHTML + refresh
    /\ pc' = "next"
    /\ UNCHANGED <<status, rec, now, snapshot, exitcode, nrecs, torn, outcome,
                   repeat, cl, doc, published, cause, signalled,
                   loaded, cut, env>>

\* nextTimeGenerateHTML = time() + int(config['setup']['refresh'])
SetNext ==
    /\ pc = "setNext"
    /\ nextTimeGenerateHTML' = now + refresh
    /\ pc' = "next"
    /\ UNCHANGED <<status, rec, now, snapshot, exitcode, nrecs, torn, outcome,
                   repeat, cl,
                   doc, published, cause, signalled,
                   loaded, cut, env>>

\* SIGHUP, SIGINT, SIGQUIT or SIGTERM: SIGINT_handler raises SystemExit in
\* main at its current position. Inside the try of the loop the bare except
\* catches it and continues with the next record. During a publish it may
\* land in one of the bare excepts of generate_station_html, which drops it
\* and lets the publish go on; elsewhere in generate_all_files it ends the
\* process after the artifacts written so far (`except Exception` does not
\* catch SystemExit). Anywhere else it ends the process with status 0.
Signal ==
    /\ pc # "exited"
    /\ signalled' = TRUE
    /\ \/ /\ pc \in {"setData", "setFeed"}
          /\ pc' = "next"
          /\ outcome' = "interrupted"
          /\ UNCHANGED <<exitcode, cause, snapshot, doc, cut>>
       \/ /\ pc \in {"initial", "generate"}
          /\ DOMAIN status # {}
          /\ UNCHANGED <<pc, outcome, exitcode, cause, snapshot, doc, cut>>
       \/ /\ pc \in {"initial", "generate"}
          /\ pc' = "exited"
          /\ exitcode' = <<0>>
          /\ cause' = "signal"
          /\ \E n \in 0..Len(Artifacts) :
                /\ cut' = n
                /\ snapshot' = IF n >= json_position
                               THEN generate_json_data(status, now, snapshot)
                               ELSE snapshot
                /\ doc' = IF n >= json_position /\ ~to_json_raises(status)
                          THEN stations_list(status, now)
                          ELSE doc
          /\ UNCHANGED outcome
       \/ /\ pc \notin {"setData", "setFeed", "initial", "generate"}
          /\ pc' = "exited"
          /\ exitcode' = <<0>>
          /\ cause' = "signal"
          /\ UNCHANGED <<outcome, snapshot, doc, cut>>
    /\ UNCHANGED <<status, rec, now, nextTimeGenerateHTML, nrecs,
                   torn, repeat, cl, published, loaded, env>>

\* the wall clock advances, up to limit
TickTo(limit) ==
    /\ pc # "exited"
    /\ now < limit
    /\ now' = now + 1
    /\ UNCHANGED <<pc, status, rec, nextTimeGenerateHTML, snapshot, exitcode,
                   nrecs, torn, outcome, repeat, cl,
                   doc, published, cause, signalled,
                   loaded, cut, env>>

Tick == TickTo(MaxTime)

Next ==
    \/ Populate
    \/ GenerateInitial
    \/ SetDeadline
    \/ NextRecord
    \/ EndOfStream
    \/ SetLastData
    \/ SetLastFeed
    \/ CheckDeadline
    \/ Generate
    \/ SetNext
    \/ Signal
    \/ Tick

Spec == Init /\ [][Next]_vars

-----------------------------------------------------------------------------
(* main() seen from its scheduling: one configured stream, a feed of       *)
(* records for it and for a stream the registry never holds, a file system *)
(* that may fail any write, and a clock that runs past two deadlines       *)

MaxSchedTime == 3
MaxSchedRecs == 3

SchedLines ==
    {l \in SlinkLines : l.sta = "ARMA" /\ l.cha = <<"H", "H", "Z">>
                                       /\ l.typ = "D" /\ l.time = 0}

SchedRecords ==
    {r \in FeedRecords : r.cha = <<"H", "H", "Z">> /\ r.rectype = "D"
                                                 /\ r.end_time = 0}

PopulateSched == PopulateFrom(SchedLines, 1)

GenerateInitialSched == GenerateInitialWith(IOOutcomes)

NextRecordSched == NextRecordFrom(SchedRecords, MaxSchedRecs)

GenerateSched == GenerateWith(IOOutcomes)

TickSched == TickTo(MaxSchedTime)

\* the steps main takes by itself, without waiting for the feed
MainSteps ==
    \/ PopulateSched
    \/ GenerateInitialSched
    \/ SetDeadline
    \/ SetLastData
    \/ SetLastFeed
    \/ CheckDeadline
    \/ GenerateSched
    \/ SetNext

NextSched ==
    \/ MainSteps
    \/ NextRecordSched
    \/ EndOfStream
    \/ Signal
    \/ TickSched

SpecSched == Init /\ [][NextSched]_vars

\* main is not starved and the clock runs; nothing obliges the feed to
\* deliver a record, to end, or a signal to arrive
FairSched == SpecSched /\ WF_vars(MainSteps) /\ WF_vars(TickSched)

-----------------------------------------------------------------------------
(* main() from read_ini on, with configuration files that exist or not and *)
(* an output directory that can be made or not                             *)

Environments == [setup : BOOLEAN, stations : BOOLEAN, wwwdir : BOOLEAN]

InitStartup ==
    /\ pc = "config"
    /\ status = EmptyDict
    /\ rec = NoRec
    /\ now = 0
    /\ nextTimeGenerateHTML = None
    /\ snapshot = NoSnapshot
    /\ exitcode = Running
    /\ nrecs = 0
    /\ torn = {}
    /\ outcome = "none"
    /\ repeat = FALSE
    /\ cl = NoCl
    /\ doc = NoSnapshot
    /\ published = <<>>
    /\ cause = "none"
    /\ signalled = FALSE
    /\ loaded = EmptyDict
    /\ cut = None
    /\ env \in Environments

\* read_ini(): usage(exitcode=2) when the setup configuration or the
\* station configuration is not a file
read_ini ==
    /\ pc = "config"
    /\ IF ~env.setup \/ ~env.stations
       THEN /\ pc' = "exited"
            /\ exitcode' = <<2>>
            /\ cause' = "usage"
       ELSE /\ pc' = "setup"
            /\ UNCHANGED <<exitcode, cause>>
    /\ UNCHANGED <<status, rec, now, nextTimeGenerateHTML, snapshot, nrecs,
                   torn, outcome, repeat, cl, doc, published, signalled,
                   loaded, cut, env>>

NextRecordStartup == NextRecordFrom(SchedRecords, MaxRecs)

NextStartup ==
    \/ read_ini
    \/ PopulateSched
    \/ GenerateInitialSched
    \/ SetDeadline
    \/ NextRecordStartup
    \/ EndOfStream
    \/ SetLastData
    \/ SetLastFeed
    \/ CheckDeadline
    \/ GenerateSched
    \/ SetNext
    \/ Signal
    \/ Tick

SpecStartup == InitStartup /\ [][NextStartup]_vars

-----------------------------------------------------------------------------
(* main() started on a registry read from a text dump: StatusDict(source)  *)
(* in place of StatusDict(), with at most one line for the configured      *)
(* stream                                                                  *)

\* the lines of a dump as StatusDict.read sees them: long enough or not, the
\* fields of the fixed columns, and what timeparse makes of the two
\* timestamp columns (None when it raises)
ReadLines ==
    [long : BOOLEAN, net : Nets, sta : {"ARMA"}, loc : Locs,
     cha : {<<"H", "H", "Z">>}, typ : {"D"},
     data : Times \cup {None}, feed : Times \cup {None}]

InitRead ==
    /\ pc = "load"
    /\ status = EmptyDict
    /\ rec = NoRec
    /\ now = 0
    /\ nextTimeGenerateHTML = None
    /\ snapshot = NoSnapshot
    /\ exitcode = Running
    /\ nrecs = 0
    /\ torn = {}
    /\ outcome = "none"
    /\ repeat = FALSE
    /\ cl = NoCl
    /\ doc = NoSnapshot
    /\ published = <<>>
    /\ cause = "none"
    /\ signalled = FALSE
    /\ loaded = EmptyDict
    /\ cut = None
    /\ env = AllFound

\* status = StatusDict(source): __init__ reads the lines of source
Load ==
    /\ pc = "load"
    /\ \E lines \in SeqsUpTo(ReadLines, 1) : status' = read(status, lines)
    /\ pc' = "setup"
    /\ UNCHANGED <<rec, now, nextTimeGenerateHTML, snapshot, exitcode, nrecs,
                   torn, outcome, repeat, cl, doc, published, cause, signalled,
                   loaded, cut, env>>

NextRecordRead == NextRecordFrom(SchedRecords, MaxRecs)

NextRead ==
    \/ Load
    \/ PopulateSched
    \/ GenerateInitial
    \/ SetDeadline
    \/ NextRecordRead
    \/ EndOfStream
    \/ SetLastData
    \/ SetLastFeed
    \/ CheckDeadline
    \/ Generate
    \/ SetNext
    \/ Signal
    \/ Tick

SpecRead == InitRead /\ [][NextRead]_vars

-----------------------------------------------------------------------------
(* The text dump: StatusDict.write prints one line per record, and          *)
(* StatusDict.read cuts a line at fixed columns. Lines are sequences of     *)
(* characters; a timestamp is a datetime counted in microseconds.           *)

\* microseconds in a second: the resolution of the datetime str() prints
second == 1000000

\* datetimes on the second and between two seconds
DumpTimes == {s * second + u : s \in Times, u \in {0, second \div 2}}

\* the characters of the strings the fields hold; a one-character string is
\* its own character
text(s) ==
    CASE s = "AU" -> <<"A", "U">>
      [] s = "ARMA" -> <<"A", "R", "M", "A">>
      [] s = "YAPP" -> <<"Y", "A", "P", "P">>
      [] s = "" -> <<>>
      [] OTHER -> <<s>>

\* the string a sequence of characters spells
word(cs) == CHOOSE s \in Nets \cup Stas \cup Locs : text(s) = cs

decimal == <<"0", "1", "2", "3", "4", "5", "6", "7", "8", "9">>

\* "%02d" and "%06d" of strftime: n in w digits
digits(n, w) == [i \in 1..w |-> decimal[((n \div (10 ^ (w - i))) % 10) + 1]]

isdigits(cs) == \A i \in DOMAIN cs : \E d \in DOMAIN decimal : decimal[d] = cs[i]

\* int(cs) of a sequence of digits
RECURSIVE number(_)
number(cs) ==
    IF cs = <<>> THEN 0
    ELSE 10 * number(SubSeq(cs, 1, Len(cs) - 1))
         + (CHOOSE d \in DOMAIN decimal : decimal[d] = cs[Len(cs)]) - 1

\* date, hour and minute of the datetimes of the first minute of the epoch
Epoch ==
    <<"1", "9", "7", "0", "-", "0", "1", "-", "0", "1", " ",
      "0", "0", ":", "0", "0", ":">>

\* str(value) of a timestamp field: "None", or datetime.__str__, which
\* prints the microseconds only when they are not zero
str(t) ==
    IF t = None THEN <<"N", "o", "n", "e">>
    ELSE Epoch \o digits(t \div second, 2)
         \o (IF t % second = 0 THEN <<>> ELSE <<".">> \o digits(t % second, 6))

Spaces(n) == [i \in 1..n |-> " "]

\* "%2s", "%3s", "%1s": right-justified in w columns, never cut
rjust(cs, w) == (IF Len(cs) < w THEN Spaces(w - Len(cs)) ELSE <<>>) \o cs

\* "%-5s": left-justified in w columns, never cut
ljust(cs, w) == cs \o (IF Len(cs) < w THEN Spaces(w - Len(cs)) ELSE <<>>)

\* Status.__repr__: "%2s %-5s %2s %3s %1s %s %s"
Status_repr(d) ==
    rjust(text(d.net), 2) \o <<" ">> \o ljust(text(d.sta), 5) \o <<" ">>
    \o rjust(text(d.loc), 2) \o <<" ">> \o rjust(d.cha, 3) \o <<" ">>
    \o rjust(text(d.typ), 1) \o <<" ">>
    \o str(d.last_data) \o <<" ">> \o str(d.last_feed)

\* the characters in the order of their code points
Ascii ==
    <<" ", "-", ".", "0", "1", "2", "3", "4", "5", "6", "7", "8", "9", ":",
      "A", "B", "D", "E", "H", "L", "M", "P", "R", "U", "Y", "Z", "_",
      "e", "n", "o">>

ord(c) == CHOOSE i \in DOMAIN Ascii : Ascii[i] = c

\* the characters of a key
RECURSIVE keytext(_)
keytext(k) == IF k = <<>> THEN <<>> ELSE text(Head(k)) \o keytext(Tail(k))

\* a < b on strings
RECURSIVE less(_, _)
less(a, b) ==
    IF b = <<>> THEN FALSE
    ELSE IF a = <<>> THEN TRUE
    ELSE IF Head(a) # Head(b) THEN ord(Head(a)) < ord(Head(b))
    ELSE less(Tail(a), Tail(b))

\* sorted(self.keys())
RECURSIVE sorted(_)
sorted(keys) ==
    IF keys = {} THEN <<>>
    ELSE LET first == CHOOSE k \in keys :
                 \A j \in keys \ {k} : less(keytext(k), keytext(j))
         IN <<first>> \o sorted(keys \ {first})

\* StatusDict.write: the lines joined by '\n', which readlines and rstrip
\* take apart again
write(st) ==
    LET keys == sorted(DOMAIN st)
    IN [i \in DOMAIN keys |-> Status_repr(st[keys[i]])]

\* cs.strip()
RECURSIVE strip(_)
strip(cs) ==
    IF cs = <<>> THEN <<>>
    ELSE IF Head(cs) = " " THEN strip(Tail(cs))
    ELSE IF cs[Len(cs)] = " " THEN strip(SubSeq(cs, 1, Len(cs) - 1))
    ELSE cs

\* seiscomp.slclient.timeparse on a column: the datetime a text of the form
\* "YYYY-MM-DD HH:MM:SS" or "YYYY-MM-DD HH:MM:SS.f..." names; it raises on
\* any other text, which StatusDict.read turns into None
timeparse(cs) ==
    IF /\ Len(cs) >= Len(Epoch) + 2
       /\ SubSeq(cs, 1, Len(Epoch)) = Epoch
       /\ isdigits(SubSeq(cs, Len(Epoch) + 1, Len(Epoch) + 2))
       /\ \/ Len(cs) = Len(Epoch) + 2
          \/ /\ Len(cs) > Len(Epoch) + 3
             /\ Len(cs) <= Len(Epoch) + 9
             /\ cs[Len(Epoch) + 3] = "."
             /\ isdigits(SubSeq(cs, Len(Epoch) + 4, Len(cs)))
    THEN LET frac == SubSeq(cs, Len(Epoch) + 4, Len(cs))
         IN number(SubSeq(cs, Len(Epoch) + 1, Len(Epoch) + 2)) * second
            + number(frac) * (10 ^ (6 - Len(frac)))
    ELSE None

\* the fields StatusDict.read cuts out of a line: line[0:2], line[3:8],
\* line[9:11], line[12:15], line[16], line[18:41] and line[42:65]
parseLine(cs) ==
    IF Len(cs) < 65
    THEN [long |-> FALSE, net |-> "", sta |-> "", loc |-> "", cha |-> <<>>,
          typ |-> "", data |-> None, feed |-> None]
    ELSE [long |-> TRUE,
          net |-> word(strip(SubSeq(cs, 1, 2))),
          sta |-> word(strip(SubSeq(cs, 4, 8))),
          loc |-> word(strip(SubSeq(cs, 10, 11))),
          cha |-> strip(SubSeq(cs, 13, 15)),
          typ |-> cs[17],
          data |-> timeparse(SubSeq(cs, 19, 41)),
          feed |-> timeparse(SubSeq(cs, 43, 65))]

\* StatusDict().read(lines) of the lines write(st) wrote
readback(st) ==
    LET lines == write(st)
    IN read(EmptyDict, [i \in DOMAIN lines |-> parseLine(lines[i])])

\* slinktool lines and dump lines with datetimes for timestamps
DumpSlinkLines ==
    [net : Nets, sta : Stas, loc : Locs, cha : Chas, typ : Typs, time : DumpTimes]

DumpReadLines ==
    [long : BOOLEAN, net : Nets, sta : {"ARMA"}, loc : Locs, cha : Chas,
     typ : {"D"}, data : DumpTimes \cup {None}, feed : DumpTimes \cup {None}]

InitDump ==
    /\ pc = "load"
    /\ status = EmptyDict
    /\ rec = NoRec
    /\ now = 0
    /\ nextTimeGenerateHTML = None
    /\ snapshot = NoSnapshot
    /\ exitcode = Running
    /\ nrecs = 0
    /\ torn = {}
    /\ outcome = "none"
    /\ repeat = FALSE
    /\ cl = NoCl
    /\ doc = NoSnapshot
    /\ published = <<>>
    /\ cause = "none"
    /\ signalled = FALSE
    /\ loaded = EmptyDict
    /\ cut = None
    /\ env = AllFound

\* a registry as status.fromSlinkTool(server, stations=net_sta) fills it
PopulateDump ==
    /\ pc = "load"
    /\ \E lines \in SeqsUpTo(DumpSlinkLines, MaxSlinkLines) :
          status' = fromSlinkTool(status, stations, lines)
    /\ pc' = "dump"
    /\ UNCHANGED <<rec, now, nextTimeGenerateHTML, snapshot, exitcode, nrecs,
                   torn, outcome, repeat, cl, doc, published, cause, signalled,
                   loaded, cut, env>>

\* a registry as StatusDict(source) fills it
LoadDump ==
    /\ pc = "load"
    /\ \E lines \in SeqsUpTo(DumpReadLines, MaxSlinkLines) :
          status' = read(status, lines)
    /\ pc' = "dump"
    /\ UNCHANGED <<rec, now, nextTimeGenerateHTML, snapshot, exitcode, nrecs,
                   torn, outcome, repeat, cl, doc, published, cause, signalled,
                   loaded, cut, env>>

\* status.write(f), then StatusDict().read of what was written
WriteRead ==
    /\ pc = "dump"
    /\ loaded' = readback(status)
    /\ pc' = "dumped"
    /\ UNCHANGED <<status, rec, now, nextTimeGenerateHTML, snapshot, exitcode,
                   nrecs, torn, outcome, repeat, cl, doc, published, cause,
                   signalled, cut, env>>

NextDump ==
    \/ PopulateDump
    \/ LoadDump
    \/ WriteRead

SpecDump == InitDump /\ [][NextDump]_vars

-----------------------------------------------------------------------------
(* The classifier on its own: two elapsed times and a channel type are     *)
(* drawn, get_status_from_seconds is applied to both.                      *)

\* every number get_status_from_seconds compares with, and zero
Thresholds ==
    {0, 60, 600, 1800, 3600, 7200, 10800, 21600, 43200, 86400, 172800, 259200,
     345600, 432000, 518400, 604800}

\* ages around every threshold, and their negatives (a last_data ahead of the
\* clock gives a negative age)
ElapsedValues ==
    LET around == {t + d : t \in Thresholds, d \in (0 - MaxDelta)..MaxDelta}
    IN around \cup {0 - e : e \in around}

ChannelTypes == {LH, BH, HH, Other, NoType}

InitClassify ==
    /\ pc = "setup"
    /\ status = EmptyDict
    /\ rec = NoRec
    /\ now = 0
    /\ nextTimeGenerateHTML = None
    /\ snapshot = NoSnapshot
    /\ exitcode = Running
    /\ nrecs = 0
    /\ torn = {}
    /\ outcome = "none"
    /\ repeat = FALSE
    /\ cl \in [a : ElapsedValues, b : ElapsedValues, type : ChannelTypes,
               ra : {""}, rb : {""}, done : {FALSE}]
    /\ doc = NoSnapshot
    /\ published = <<>>
    /\ cause = "none"
    /\ signalled = FALSE
    /\ loaded = EmptyDict
    /\ cut = None
    /\ env = AllFound

Classify ==
    /\ ~cl.done
    /\ cl' = [cl EXCEPT !.ra = get_status_from_seconds(cl.a, cl.type),
                        !.rb = get_status_from_seconds(cl.b, cl.type),
                        !.done = TRUE]
    /\ UNCHANGED <<pc, status, rec, now, nextTimeGenerateHTML, snapshot,
                   exitcode, nrecs, torn, outcome, repeat,
                   doc, published, cause, signalled,
                   loaded, cut, env>>

NextClassify == Classify

SpecClassify == InitClassify /\ [][NextClassify]_vars

-----------------------------------------------------------------------------
(* to_json on its own: one generate_all_files over a registry of up to     *)
(* MaxChans channels of two stations, a channel code of every group and a  *)
(* second one of the HH group                                              *)

MaxChans == 3

HHZ == <<"H", "H", "Z">>
HHN == <<"H", "H", "N">>
BHZ == <<"B", "H", "Z">>
SHZ == <<"S", "H", "Z">>
EHZ == <<"E", "H", "Z">>
LHZ == <<"L", "H", "Z">>
VHZ == <<"V", "H", "Z">>

JsonChas == {HHZ, HHN, BHZ, SHZ, EHZ, LHZ, VHZ}

\* sample times, and clock readings 0, 100, 1900, 2000 and 2100 s after them
JsonTimes == {0, 100, 2000}
JsonNows == {2000, 2100}

JsonStreams == Stas \X JsonChas

\* the registry fromSlinkTool builds from one stream line per element of S,
\* f giving the end time of each
JsonRegistry(S, f) ==
    [k \in {DotKey("AU", e[1], "", e[2], "D") : e \in S} |->
        LET e == CHOOSE x \in S : DotKey("AU", x[1], "", x[2], "D") = k
        IN Status("AU", e[1], "", e[2], "D", f[e], f[e])]

InitJson ==
    /\ pc = "initial"
    /\ \E S \in {T \in SUBSET JsonStreams : Cardinality(T) <= MaxChans} :
          \E f \in [S -> JsonTimes] : status = JsonRegistry(S, f)
    /\ rec = NoRec
    /\ now \in JsonNows
    /\ nextTimeGenerateHTML = None
    /\ snapshot = NoSnapshot
    /\ exitcode = Running
    /\ nrecs = 0
    /\ torn = {}
    /\ outcome = "none"
    /\ repeat = FALSE
    /\ cl = NoCl
    /\ doc = NoSnapshot
    /\ published = <<>>
    /\ cause = "none"
    /\ signalled = FALSE
    /\ loaded = EmptyDict
    /\ cut = None
    /\ env = AllFound

NextJson == GenerateInitial

SpecJson == InitJson /\ [][NextJson]_vars

-----------------------------------------------------------------------------
(* Claims about the registry and the loop of main, checked under Spec *)

\* the record's station is in the configured list and it is a data record
Acceptable(r) == <<r.net, "_", r.sta>> \in stations /\ r.rectype = "D"

\* C1: no record of the registry whose two timestamps come from the same
\* update or load has last_feed earlier than last_data.
C1_ClampInvariant ==
    \A k \in DOMAIN status :
        (k \notin torn /\ status[k].last_feed # None /\ status[k].last_data # None)
            => status[k].last_feed >= status[k].last_data

\* C2: every record read by a snapshot taken in the loop has last_data and
\* last_feed written by the same update.
C2_NoPartialUpdateVisible ==
    pc = "setNext" => \A k \in DOMAIN snapshot : k \notin torn

\* C3 as claimed: once a record of a configured station and of type D has
\* been processed, the registry holds its key with its end time.
C3_LazyCreation ==
    (pc = "next" /\ outcome \in {"applied", "discarded"} /\ Acceptable(rec))
        => (id \in DOMAIN status /\ status[id].last_data = rec.end_time)

\* C3 amended: a feed record whose key has no entry creates none: the
\* registry is left as it is and the loop goes on to the next record; no
\* step after the initial population changes the key set of the registry.
C3_NoLazyCreation ==
    [][/\ (pc = "setData" /\ id \notin DOMAIN status)
            => (status' = status /\ pc' \in {"setData", "next"})
       /\ pc # "setup" => DOMAIN status' = DOMAIN status]_vars

\* a data record of a configured station was discarded for want of an entry
C3_Witness ==
    /\ pc = "next" /\ outcome = "discarded"
    /\ Acceptable(rec) /\ id \notin DOMAIN status
    /\ DOMAIN status # {}

\* C4: while a record of an unconfigured station or of a type other than D
\* is being processed, no step changes the registry.
C4_DiscardRule ==
    [][(pc \in {"setData", "setFeed"} /\ ~Acceptable(rec)) => status' = status]_vars

\* a non-data record was discarded although the registry holds the data
\* channel of the same net, station, location and channel code
C4_Witness ==
    /\ pc = "next" /\ outcome = "discarded" /\ rec.rectype # "D"
    /\ DotKey(rec.net, rec.sta, rec.loc, rec.cha, "D") \in DOMAIN status

\* C5: from one snapshot to the next no key is lost and the number of
\* entries does not decrease.
C5_NoEntriesVanish ==
    [][/\ DOMAIN snapshot \subseteq DOMAIN snapshot'
       /\ Cardinality(DOMAIN snapshot) <= Cardinality(DOMAIN snapshot')]_vars

\* a snapshot taken in the loop, after the initial one and an update
C5_Witness ==
    /\ pc = "setNext" /\ outcome = "applied"
    /\ Cardinality(DOMAIN snapshot) = 2

\* C6 as claimed: applying again the record that was applied just before
\* changes nothing in the registry.
C6_Idempotent ==
    [][(repeat /\ pc \in {"setData", "setFeed"}) => status' = status]_vars

\* C6 amended: applying again the record that was applied just before leaves
\* last_data as it was, and sets last_feed to the wall-clock time of the
\* second application.
C6_IdempotentLastData ==
    [][(repeat /\ pc \in {"setData", "setFeed"}) =>
          /\ status'[id].last_data = status[id].last_data
          /\ pc' = "check" => status'[id].last_feed = now
          /\ \A k \in DOMAIN status \ {id} : status'[k] = status[k]]_vars

\* the same record applied twice, the second time after the clock advanced
C6_Witness ==
    /\ pc = "check" /\ repeat /\ outcome = "applied"
    /\ status[id].last_data = 0 /\ status[id].last_feed = 1

-----------------------------------------------------------------------------
(* Claims about the classifier, checked under SpecClassify *)

\* the order of StatusLevel
StatusLevels ==
    <<"good", "delayed", "long-delayed", "very-delayed", "hour-delayed",
      "warning", "critical", "day-delayed", "multi-day", "three-day",
      "four-day", "unavailable">>

Rank(level) == CHOOSE i \in 1..Len(StatusLevels) : StatusLevels[i] = level

\* the level of the first inclusive upper bound that is >= elapsed
FirstLevel(ladder, elapsed) ==
    IF \E i \in 1..Len(ladder) : elapsed <= ladder[i][1]
    THEN ladder[CHOOSE i \in 1..Len(ladder) :
                    /\ elapsed <= ladder[i][1]
                    /\ \A j \in 1..(i - 1) : elapsed > ladder[j][1]][2]
    ELSE "unavailable"

StandardLadder ==
    <<<<60, "good">>, <<600, "delayed">>, <<1800, "long-delayed">>,
      <<3600, "very-delayed">>, <<7200, "hour-delayed">>, <<21600, "warning">>,
      <<86400, "critical">>, <<172800, "day-delayed">>, <<259200, "multi-day">>,
      <<345600, "three-day">>, <<432000, "four-day">>>>

\* the lenient ladder as the specification words it
LenientLadderAsSpecified ==
    <<<<1800, "good">>, <<3600, "delayed">>, <<10800, "long-delayed">>,
      <<21600, "very-delayed">>, <<43200, "hour-delayed">>, <<86400, "warning">>,
      <<259200, "critical">>, <<345600, "multi-day">>, <<432000, "three-day">>,
      <<518400, "four-day">>>>

\* the lenient ladder with day-delayed kept and one more day before unavailable
LenientLadder ==
    <<<<1800, "good">>, <<3600, "delayed">>, <<10800, "long-delayed">>,
      <<21600, "very-delayed">>, <<43200, "hour-delayed">>, <<86400, "warning">>,
      <<259200, "critical">>, <<345600, "day-delayed">>, <<432000, "multi-day">>,
      <<518400, "three-day">>, <<604800, "four-day">>>>

\* C7: for every channel class other than LH (no class included) and every
\* elapsed >= 0, the classifier returns the level of the first inclusive
\* upper bound of the standard ladder that is >= elapsed, else unavailable.
C7_StandardLadder ==
    (cl.done /\ cl.type # LH /\ cl.a >= 0)
        => cl.ra = FirstLevel(StandardLadder, cl.a)

\* a non-LH class classified just above the last bound of the standard ladder
C7_Witness ==
    /\ cl.done /\ cl.type = NoType /\ cl.a = 432001 /\ cl.ra = "unavailable"
    /\ cl.b = 60 /\ cl.rb = "good"

\* C8 as claimed: for class LH the classifier follows the lenient ladder of
\* the specification, which never yields day-delayed and ends at 518400 s.
C8_LenientAsSpecified ==
    (cl.done /\ cl.type = LH /\ cl.a >= 0)
        => cl.ra = FirstLevel(LenientLadderAsSpecified, cl.a)

\* C8 amended: for class LH and every elapsed >= 0 the classifier returns
\* <=1800 good, <=3600 delayed, <=10800 long-delayed, <=21600 very-delayed,
\* <=43200 hour-delayed, <=86400 warning, <=259200 critical, <=345600
\* day-delayed, <=432000 multi-day, <=518400 three-day, <=604800 four-day,
\* otherwise unavailable.
C8_LenientLadder ==
    (cl.done /\ cl.type = LH /\ cl.a >= 0)
        => cl.ra = FirstLevel(LenientLadder, cl.a)

\* an LH channel just over three days late is day-delayed, just over six
\* days late still four-day
C8_Witness ==
    /\ cl.done /\ cl.type = LH
    /\ cl.a = 259201 /\ cl.ra = "day-delayed"
    /\ cl.b = 518401 /\ cl.rb = "four-day"

\* C9: for every channel class and 0 <= a <= b the level of a is not above
\* the level of b in the order of StatusLevels.
C9_Monotone ==
    (cl.done /\ 0 <= cl.a /\ cl.a <= cl.b) => Rank(cl.ra) <= Rank(cl.rb)

\* two elapsed times either side of a threshold get different levels
C9_Witness ==
    /\ cl.done /\ cl.type = BH /\ cl.a = 7200 /\ cl.b = 21601
    /\ Rank(cl.ra) < Rank(cl.rb)

\* C10 as claimed: for class BH, 60 is good, 61 is delayed, 21600 is
\* critical and 21601 is warning.
C10_BoundariesAsSpecified ==
    (cl.done /\ cl.type = BH) =>
        /\ cl.a = 60 => cl.ra = "good"
        /\ cl.a = 61 => cl.ra = "delayed"
        /\ cl.a = 21600 => cl.ra = "critical"
        /\ cl.a = 21601 => cl.ra = "warning"

\* C10 amended: for class BH, 60 is good, 61 is delayed, 21600 is warning
\* and 21601 is critical.
C10_Boundaries ==
    (cl.done /\ cl.type = BH) =>
        /\ cl.a = 60 => cl.ra = "good"
        /\ cl.a = 61 => cl.ra = "delayed"
        /\ cl.a = 21600 => cl.ra = "warning"
        /\ cl.a = 21601 => cl.ra = "critical"

\* the six-hour boundary and its successor, both classified for BH
C10_Witness ==
    /\ cl.done /\ cl.type = BH
    /\ cl.a = 21600 /\ cl.ra = "warning"
    /\ cl.b = 21601 /\ cl.rb = "critical"

\* C11: an age below zero is classified like the age 0, which is "good", for
\* every channel class
C11_NegativeIsGood ==
    (cl.done /\ cl.a < 0) =>
        /\ cl.ra = get_status_from_seconds(0, cl.type)
        /\ cl.ra = "good"

\* a week of clock skew on an LH channel and on a BH channel, classified good
C11_Witness ==
    /\ cl.done /\ cl.a = 0 - 604800 /\ cl.b = 0 - 60
    /\ cl.type \in {LH, BH}
    /\ cl.ra = "good" /\ cl.rb = "good"

-----------------------------------------------------------------------------
(* Claims about the snapshot document, checked under SpecJson *)

\* the class of a registry entry: the first two characters of its channel
\* code when they name a group, else "other"
ClassOf(k) ==
    LET two == SubSeq(status[k].cha, 1, 2)
    IN IF two \in {HH, BH, SH, EH, LH} THEN two ELSE Other

StationOf(k) == <<status[k].net, "_", status[k].sta>>

Bucket(ns, g) == {k \in DOMAIN status : StationOf(k) = ns /\ ClassOf(k) = g}

Priority == <<HH, BH, SH, EH, LH, Other>>

\* the first non-empty bucket of station ns in the order of Priority
PrimaryOf(ns) ==
    LET i == CHOOSE n \in 1..6 :
                 /\ Bucket(ns, Priority[n]) # {}
                 /\ \A m \in 1..(n - 1) : Bucket(ns, Priority[m]) = {}
    IN Priority[i]

Age(k) == now - status[k].last_data

\* a snapshot of the current registry at the current clock has been written
Snapshotted ==
    /\ pc = "deadline"
    /\ published # <<>>
    /\ DOMAIN snapshot = DOMAIN status

\* C12: the primaryChannelType of every station of the snapshot is the first
\* non-empty bucket in the order HH, BH, SH, EH, LH, other
C12_PrimaryPriority ==
    Snapshotted =>
        \A ns \in DOMAIN doc : doc[ns].primaryChannelType = PrimaryOf(ns)

\* a station with an HH and an LH channel, the LH one lagging more, and HH
\* primary, next to a station judged by its SH channel
C12_Witness ==
    /\ Snapshotted
    /\ \E ns \in DOMAIN doc :
          /\ doc[ns].primaryChannelType = HH
          /\ \E h \in Bucket(ns, HH), l \in Bucket(ns, LH) : Age(l) > Age(h)
    /\ \E ns \in DOMAIN doc : doc[ns].primaryChannelType = SH

\* C13: the latency of every station of the snapshot is the largest age in
\* its primary bucket, whatever the ages outside that bucket
C13_WorstOfPrimary ==
    Snapshotted =>
        \A ns \in DOMAIN doc :
            /\ \E k \in Bucket(ns, PrimaryOf(ns)) : doc[ns].latency = Age(k)
            /\ \A k \in Bucket(ns, PrimaryOf(ns)) : doc[ns].latency >= Age(k)

\* a station with two channels in its primary bucket of different ages and a
\* channel outside it that lags more than both
C13_Witness ==
    /\ Snapshotted
    /\ \E ns \in DOMAIN doc :
          /\ \E a, b \in Bucket(ns, PrimaryOf(ns)) :
                Age(a) < Age(b) /\ doc[ns].latency = Age(b)
          /\ \E k \in DOMAIN status :
                /\ StationOf(k) = ns
                /\ k \notin Bucket(ns, PrimaryOf(ns))
                /\ Age(k) > doc[ns].latency

\* C14: the status of every station of the snapshot is the class of its
\* latency on the lenient ladder when its primary bucket is LH and on the
\* standard ladder otherwise
C14_StationStatus ==
    Snapshotted =>
        \A ns \in DOMAIN doc :
            doc[ns].status =
                FirstLevel(IF PrimaryOf(ns) = LH THEN LenientLadder
                           ELSE StandardLadder,
                           doc[ns].latency)

\* a station with only LH channels, the worst 2000 s old, reported delayed
\* next to a station with an HH channel of the same age, reported very-delayed
C14_Witness ==
    /\ Snapshotted
    /\ \E ns \in DOMAIN doc :
          /\ \A k \in DOMAIN status : StationOf(k) = ns => ClassOf(k) = LH
          /\ doc[ns].latency = 2000
          /\ doc[ns].status = "delayed"
    /\ \E ns \in DOMAIN doc :
          /\ doc[ns].primaryChannelType = HH
          /\ doc[ns].latency = 2000
          /\ doc[ns].status = "very-delayed"

\* C15: every channel of the snapshot reports the age of its last sample and
\* the class of that age on the ladder of its own channel class
C15_ChannelLatencyStatus ==
    Snapshotted =>
        \A k \in DOMAIN snapshot :
            /\ snapshot[k].latency = Age(k)
            /\ snapshot[k].status =
                   FirstLevel(IF ClassOf(k) = LH THEN LenientLadder
                              ELSE StandardLadder,
                              Age(k))

\* AU.ARMA..BHZ.D sampled 100 s before the snapshot reports 100 and delayed;
\* an LH channel 2000 s old reports delayed in a station whose primary is BH
C15_Witness ==
    /\ Snapshotted
    /\ LET bhz == DotKey("AU", "ARMA", "", BHZ, "D")
           lhz == DotKey("AU", "ARMA", "", LHZ, "D")
       IN /\ bhz \in DOMAIN snapshot /\ lhz \in DOMAIN snapshot
          /\ snapshot[bhz].latency = 100 /\ snapshot[bhz].status = "delayed"
          /\ snapshot[lhz].latency = 2000 /\ snapshot[lhz].status = "delayed"
          /\ doc[<<"AU", "_", "ARMA">>].primaryChannelType = BH

-----------------------------------------------------------------------------
(* Claims about the publish schedule and the end of main, checked under    *)
(* SpecSched and FairSched                                                  *)

\* C16: an iteration of the loop that has consumed a record, accepted or
\* discarded, returns to reading without a publish only when the deadline has
\* not been reached (now < nextDeadline)
C16_DeadlineEveryIteration ==
    [][(/\ pc \in {"setData", "check"}
        /\ pc' = "next"
        /\ outcome' \in {"applied", "discarded"})
          => now < nextTimeGenerateHTML]_vars

\* C17: once the deadline has passed while main waits for the feed, a publish
\* (or the end of the process) follows, whether or not a record arrives
C17_PublishWithoutFeed ==
    (pc = "next" /\ now > nextTimeGenerateHTML)
        ~> (pc = "generate" \/ pc = "exited")

\* C18: a periodic generate_all_files that returns False leaves main running
\* with its registry, the next deadline is set from the clock as after a
\* success, and a record applied after a passed deadline starts a publish
C18_PublishFailureTolerated ==
    [][/\ (/\ pc = "generate"
           /\ Len(published') > Len(published)
           /\ ~published'[Len(published')])
             => /\ pc' = "setNext"
                /\ exitcode' = Running
                /\ status' = status
       /\ (pc = "setNext" /\ pc' = "next")
             => nextTimeGenerateHTML' = now + refresh
       /\ (pc = "check" /\ now > nextTimeGenerateHTML /\ pc' # pc)
             => pc' \in {"generate", "exited"}]_vars

\* the second periodic publish has run after the first one failed and two
\* records were consumed
C18_Witness ==
    /\ pc = "setNext"
    /\ Len(published) = 3
    /\ ~published[2]
    /\ nrecs >= 2
    /\ exitcode = Running

\* C19: applying a record never ends main: a record for an unknown key
\* leaves the registry alone and the loop goes back to reading; main ends
\* only on end of stream or on a signal
C19_RecordErrorsContained ==
    [][/\ pc \in {"setData", "setFeed"}
             => /\ pc' \in {"setData", "setFeed", "check", "next"}
                /\ exitcode' = Running
       /\ (pc = "setData" /\ id \notin DOMAIN status /\ pc' # pc)
             => pc' = "next" /\ status' = status
       /\ (pc # "exited" /\ pc' = "exited")
             => cause' \in {"eos", "signal"}]_vars

\* a record has been read after the one before it was discarded
C19_Witness ==
    /\ pc = "setData"
    /\ outcome = "discarded"
    /\ nrecs >= 2
    /\ exitcode = Running

\* C20: once a shutdown signal has been delivered no further record is
\* taken from the feed, and the process ends with status 0
C20_NoReadAfterSignal ==
    [][signalled =>
          /\ ~(pc = "next" /\ pc' = "setData")
          /\ (pc' = "exited" => exitcode' = <<0>>)]_vars

-----------------------------------------------------------------------------
(* Further claims about the update of the loop, checked under Spec *)

\* C25: when the update of an existing key completes, its last_data is the
\* end time of the record, also when that is earlier than what was stored,
\* and its last_feed is the wall clock of that moment
C25_LastWriterWins ==
    [][(pc = "setFeed" /\ pc' = "check") =>
          /\ status'[id].last_data = rec.end_time
          /\ status'[id].last_feed = now]_vars

\* an applied record whose end time is earlier than the sample time the
\* initial publish still shows for its key
C25_Witness ==
    /\ pc = "check" /\ outcome = "applied"
    /\ id \in DOMAIN snapshot
    /\ status[id].last_data = rec.end_time
    /\ status[id].last_data < snapshot[id].last_data
    /\ status[id].last_feed = now

\* the fields of a registry record that say which channel it is
Identity(d) == <<d.net, d.sta, d.loc, d.cha, d.typ>>

\* C29: from the first read on, a step of main leaves the key set, every
\* record under another key than the id of the record in hand, and the
\* identity fields of the record under that id as they are
C29_UpdateFrame ==
    [][(pc \in {"next", "setData", "setFeed", "check"}) =>
          /\ DOMAIN status' = DOMAIN status
          /\ \A k \in DOMAIN status :
                (k # id => status'[k] = status[k])
          /\ \A k \in DOMAIN status :
                Identity(status'[k]) = Identity(status[k])]_vars

\* one of two records of a station updated, the other one as it was loaded
C29_Witness ==
    /\ pc = "check" /\ outcome = "applied"
    /\ status[id].last_feed = now
    /\ \E k \in DOMAIN status \ {id} :
          /\ status[k].sta = rec.sta
          /\ status[k].last_feed < now
          /\ status[k].last_feed = status[k].last_data

-----------------------------------------------------------------------------
(* Further claims about the publish schedule, checked under SpecSched *)

\* C26: the deadline is the clock at the set-up of the loop, then the clock
\* at the end of each periodic publish plus refresh; nothing else moves it,
\* the clock does not run backwards, and a periodic publish starts only
\* with the deadline reached
C26_MinimumSpacing ==
    [][/\ (pc = "deadline" /\ pc' = "next") => nextTimeGenerateHTML' = now
       /\ (pc = "setNext" /\ pc' = "next")
             => nextTimeGenerateHTML' = now + refresh
       /\ (pc \notin {"deadline", "setNext"})
             => nextTimeGenerateHTML' = nextTimeGenerateHTML
       /\ (pc # "generate" /\ pc' = "generate") => now >= nextTimeGenerateHTML
       /\ now' >= now]_vars

\* the second periodic publish is starting, later than the end of the first
\* one plus refresh
C26_Witness ==
    /\ pc = "generate"
    /\ Len(published) = 2
    /\ nextTimeGenerateHTML >= 1 + refresh
    /\ now > nextTimeGenerateHTML

-----------------------------------------------------------------------------
(* Further claims about the snapshot document, checked under SpecJson *)

\* C27: every station element of a snapshot has at least one channel and a
\* primaryChannelType among HH, BH, SH, EH, LH and other; none is the
\* failsafe (unavailable, latency 0, primaryChannelType none)
C27_NoFailsafe ==
    Snapshotted =>
        \A ns \in DOMAIN doc :
            /\ doc[ns].channels # <<>>
            /\ doc[ns].primaryChannelType \in {HH, BH, SH, EH, LH, Other}
            /\ ~(/\ doc[ns].status = "unavailable"
                  /\ doc[ns].latency = 0
                  /\ doc[ns].primaryChannelType = NoPrimary)

\* a snapshot with an element for the one station that has channels, the
\* other station having none in the registry
C27_Witness ==
    /\ Snapshotted
    /\ DOMAIN doc = {<<"AU", "_", "YAPP">>}
    /\ Len(doc[<<"AU", "_", "YAPP">>].channels) >= 2
    /\ \A k \in DOMAIN status : status[k].sta # "ARMA"

\* how often x occurs in the list q
Count(q, x) == Cardinality({i \in DOMAIN q : q[i] = x})

\* C28: a snapshot has one element per station of the registry; every
\* record is once in the channels list of its station and in no other; of
\* the six groups of its station it is once in the one of its class and in
\* no other, and the lists hold nothing else
C28_BucketPartition ==
    Snapshotted =>
        /\ DOMAIN doc = {StationOf(k) : k \in DOMAIN status}
        /\ \A ns \in DOMAIN doc :
              /\ doc[ns].id = ns
              /\ DOMAIN doc[ns].channelGroups = {HH, BH, LH, SH, EH, Other}
              /\ \A i \in DOMAIN doc[ns].channels :
                    doc[ns].channels[i] \in DOMAIN status
              /\ \A k \in DOMAIN status :
                    /\ Count(doc[ns].channels, k) =
                          IF StationOf(k) = ns THEN 1 ELSE 0
                    /\ \A g \in DOMAIN doc[ns].channelGroups :
                          Count(doc[ns].channelGroups[g], k) =
                              IF StationOf(k) = ns /\ ClassOf(k) = g THEN 1 ELSE 0
              /\ \A g \in DOMAIN doc[ns].channelGroups :
                    Len(doc[ns].channelGroups[g]) = Cardinality(Bucket(ns, g))

\* two stations, one of them with two HH channels, the other with a channel
\* of no named class
C28_Witness ==
    /\ Snapshotted
    /\ Cardinality(DOMAIN doc) = 2
    /\ \E ns \in DOMAIN doc : Len(doc[ns].channelGroups[HH]) = 2
    /\ \E ns \in DOMAIN doc :
          /\ Len(doc[ns].channelGroups[Other]) = 1
          /\ Len(doc[ns].channels) = 1

-----------------------------------------------------------------------------
(* Claims about a registry read from a text dump, checked under SpecRead *)

\* C24: the first publish over a registry as loaded and populated ends in
\* a snapshot (or in the exit a signal asks for), never in an error, and the
\* snapshot shows every channel with the last_data the registry holds, None
\* when it is absent
C24_SnapshotTotal ==
    [][(pc = "initial" /\ pc' # pc /\ cause' # "signal") =>
          /\ pc' = "deadline"
          /\ DOMAIN snapshot' = DOMAIN status
          /\ \A k \in DOMAIN status :
                snapshot'[k].last_data = status[k].last_data]_vars

\* C30: every record of the registry is stored under the key made of its
\* own net, sta, loc, cha and typ joined by dots, the key the loop looks up
C30_KeyConsistency ==
    \A k \in DOMAIN status :
        k = DotKey(status[k].net, status[k].sta, status[k].loc,
                   status[k].cha, status[k].typ)

-----------------------------------------------------------------------------
(* Claims about the end of main during a publish, checked under SpecSched *)

\* C21: the process never ends on a signal with only a part of the
\* artifacts of a publish written
C21_PublishCompletes ==
    (pc = "exited" /\ cut # None) => cut \notin 1..(Len(Artifacts) - 1)

-----------------------------------------------------------------------------
(* Claims about the start of main, checked under SpecStartup *)

\* what main was started with lacks a configuration file or a usable
\* output directory
StartupFatal == ~env.setup \/ ~env.stations \/ ~env.wwwdir

\* C22: with a configuration file missing or the output directory unusable
\* main does not get past read_ini: the registry is never populated, no
\* record is read, and unless a signal ends it first the process ends with
\* a status other than 0
C22_FatalStartup ==
    StartupFatal =>
        /\ pc \in {"config", "exited"}
        /\ status = EmptyDict
        /\ nrecs = 0
        /\ (pc = "exited" /\ cause # "signal") => exitcode \notin {Running, <<0>>}

-----------------------------------------------------------------------------
(* Claims about the text dump, checked under SpecDump *)

\* two timestamp fields agree up to one second: both absent, or both present
\* and less than a second apart
SameSecond(a, b) ==
    \/ a = None /\ b = None
    \/ /\ a # None
       /\ b # None
       /\ a - b < second
       /\ b - a < second

\* C23: a registry written with write and read back with read into an empty
\* registry has the same keys and, under every key, the same net, sta, loc,
\* cha and typ and the same last_data and last_feed up to one second
C23_RoundTrip ==
    pc = "dumped" =>
        /\ DOMAIN loaded = DOMAIN status
        /\ \A k \in DOMAIN status :
              /\ Identity(loaded[k]) = Identity(status[k])
              /\ SameSecond(loaded[k].last_data, status[k].last_data)
              /\ SameSecond(loaded[k].last_feed, status[k].last_feed)

=============================================================================
